---- MODULE Spec2Model ----
(***************************************************************************)
(* Model of kpostgres_fixture (src/src/lib.rs): the two scoped            *)
(* provisioning functions with_temporary_postgres (a throwaway container) *)
(* and with_temporary_database (a throwaway role + database), run alone   *)
(* or nested as in tests::temp_pg.                                         *)
(*                                                                         *)
(* The docker daemon and the PostgreSQL server are the environment: every *)
(* call on them either succeeds, with its effect, or returns an error     *)
(* and leaves the daemon / server as it was.  The caller's task either    *)
(* returns a value or panics; a panic unwinds through the provisioning    *)
(* function, which has no guard object and no catch_unwind.                *)
(*                                                                         *)
(* ConcSpec runs several invocations of with_temporary_database against   *)
(* one server, which there accepts or rejects a statement by the roles    *)
(* and databases it holds.                                                 *)
(***************************************************************************)
EXTENDS Integers, Sequences, FiniteSets, TLC

VARIABLES
    mode,             \* which entry point the caller uses
    pgpc,             \* position in with_temporary_postgres
    dbpc,             \* position in with_temporary_database
    n,                \* lib.rs:66  connect attempt counter
    lastErr,          \* error of the most recent failed connect attempt
    postgres_port,    \* lib.rs:50  discovered host port (0: none yet)
    pgInner,          \* lib.rs:43  result of the inner closure
    pgOuter,          \* lib.rs:39  result of the outer closure
    pgRet,            \* value returned by with_temporary_postgres
    dbInner,          \* lib.rs:168 result of the inner try_ block
    dbOuter,          \* lib.rs:163 result of the outer try_ block
    dbRet,            \* value returned by with_temporary_database
    containerExists,  \* docker daemon: the created container exists
    containerRunning, \* docker daemon: the container is running
    roleExists,       \* server: the sandbox role exists
    dbExists,         \* server: the sandbox database exists
    connOpen,         \* lib.rs:147 the administrative connection is open
    pgConnOpen,       \* lib.rs:69  the connection handed to the pg task is open
    calls,            \* the calls made so far, in order, with their outcome
                      \* (the connect retry loop is one entry; n counts
                      \* its attempts)
    params,           \* lib.rs:121 the server parameters given to
                      \* with_temporary_database
    new_params,       \* lib.rs:133 the parameters derived for the task
    dbname,           \* lib.rs:125 the generated role and database name
    dbmainuserpass,   \* lib.rs:127 the generated password
    connParams,       \* lib.rs:147 the parameters conn was opened with
    taskParams,       \* lib.rs:175 the parameters the task was given
    ddl,              \* every batch_execute so far: its statement, the name
                      \* it names, and the connection it was issued on
    invs,             \* concurrent invocations of with_temporary_database:
                      \* each one's position, results and connection
    names,            \* the name each concurrent invocation generated
    serverRoles,      \* the roles on the server the invocations share
    serverDbs,        \* the databases on that server
    alone,            \* for each concurrent invocation, the roles and
                      \* databases the server would hold had it run alone
    issued,           \* the statements the concurrent invocations issued
    peak              \* the most databases the shared server held at once

vars == <<mode, pgpc, dbpc, n, lastErr, postgres_port, pgInner, pgOuter, pgRet,
          dbInner, dbOuter, dbRet, containerExists, containerRunning,
          roleExists, dbExists, connOpen, pgConnOpen, calls,
          params, new_params, dbname, dbmainuserpass, connParams, taskParams,
          ddl, invs, names, serverRoles, serverDbs, alone, issued, peak>>

\* the state of the concurrent invocations and of the server they share
concVars == <<invs, names, serverRoles, serverDbs, alone, issued, peak>>

\* the state of the single invocation
soloVars == <<mode, pgpc, dbpc, n, lastErr, postgres_port, pgInner, pgOuter,
              pgRet, dbInner, dbOuter, dbRet, containerExists,
              containerRunning, roleExists, dbExists, connOpen, pgConnOpen,
              calls, params, new_params, dbname, dbmainuserpass, connParams,
              taskParams, ddl>>

pgVars == <<pgpc, n, lastErr, postgres_port, pgInner, pgOuter, pgRet,
            containerExists, containerRunning, pgConnOpen>>

dbVars == <<dbpc, dbInner, dbOuter, dbRet, roleExists, dbExists, connOpen>>

\* what with_temporary_database computes before it connects
idVars == <<params, new_params, dbname, dbmainuserpass>>

sbVars == <<params, new_params, dbname, dbmainuserpass, connParams,
            taskParams, ddl>>

(* Bounds and program constants *)

\* longest Ports list a listed container is given
MaxPorts == 2

\* number of invocations of with_temporary_database running concurrently
NumInvocations == 2

\* longest list of extra options the server parameters are given
MaxOptions == 2

\* lib.rs:125  random_string(20)
NameLen == 20

\* lib.rs:127  random_string(32)
PassLen == 32

\* lib.rs:73  the connect loop gives up when n >= 100
MaxAttempts == 100

\* lib.rs:52  the server's port inside the container
PostgresPrivatePort == 5432

\* lib.rs:58  `postgres_port as u16`
U16 == 65536

(* Values *)

Modes == {"db", "pg", "nested"}

\* The task's own return value T: in the tests T = Result<()>, so a task
\* can return a task-level error value without the provisioning function
\* failing.
TaskOk  == "Ok(())"
TaskErr == "Err(task)"
TaskValues == {TaskOk, TaskErr}

\* The errors Connection::connect can return on one attempt.
ConnectErrors == {"Postgres(connection refused)", "Postgres(server starting up)"}

\* lib.rs:19  Result<T>
Ok(v)  == [ok |-> TRUE,  val |-> v,   err |-> "-"]
Err(e) == [ok |-> FALSE, val |-> "-", err |-> e]
Unset  == [ok |-> FALSE, val |-> "-", err |-> "unset"]

\* One entry of the call log.
Call(op, res) == [op |-> op, res |-> res]


(* Pure helpers *)

\* Statement with the two DROP statements exchanged
Statement_Swapped(pc) ==
    CASE pc = "create_role" -> "CREATE ROLE"
      [] pc = "create_db"   -> "CREATE DATABASE"
      [] pc = "revoke"      -> "REVOKE"
      [] pc = "drop_db"     -> "DROP ROLE"
      [] pc = "drop_role"   -> "DROP DATABASE"

\* lib.rs:154-181  the SQL statement batch_execute is given at each position
Statement(pc) ==
    CASE pc = "create_role" -> "CREATE ROLE"
      [] pc = "create_db"   -> "CREATE DATABASE"
      [] pc = "revoke"      -> "REVOKE"
      [] pc = "drop_db"     -> "DROP DATABASE"
      [] pc = "drop_role"   -> "DROP ROLE"

\* Error::Postgres(e) for a failed statement
StmtErr(stmt) == "Postgres(" \o stmt \o ")"

\* Server: the sandbox role after a statement that succeeded
RoleAfter(stmt, r) ==
    IF stmt = "CREATE ROLE" THEN TRUE
    ELSE IF stmt = "DROP ROLE" THEN FALSE
    ELSE r

\* Server: the sandbox database after a statement that succeeded
DbAfter(stmt, d) ==
    IF stmt = "CREATE DATABASE" THEN TRUE
    ELSE IF stmt = "DROP DATABASE" THEN FALSE
    ELSE d

\* DbNext with the `?` of CREATE DATABASE outside the try_ blocks: its
\* failure returns from the function at once
DbNext_NoRollback(pc, ok) ==
    CASE pc = "connect"     -> IF ok THEN "create_role" ELSE "done"
      [] pc = "create_role" -> IF ok THEN "create_db"   ELSE "done"
      [] pc = "create_db"   -> IF ok THEN "revoke"      ELSE "done"
      [] pc = "revoke"      -> IF ok THEN "task"        ELSE "drop_db"
      [] pc = "task"        -> "drop_db"
      [] pc = "drop_db"     -> "drop_role"
      [] pc = "drop_role"   -> "done"

\* DbNext with the result of REVOKE ignored: the task runs all the same
DbNext_TaskAfterRevokeErr(pc, ok) ==
    CASE pc = "connect"     -> IF ok THEN "create_role" ELSE "done"
      [] pc = "create_role" -> IF ok THEN "create_db"   ELSE "done"
      [] pc = "create_db"   -> IF ok THEN "revoke"      ELSE "drop_role"
      [] pc = "revoke"      -> "task"
      [] pc = "task"        -> "drop_db"
      [] pc = "drop_db"     -> "drop_role"
      [] pc = "drop_role"   -> "done"

\* DbNext with CREATE DATABASE inside the inner try_ block: its failure
\* is followed by DROP DATABASE
DbNext_DropDbAfterCreateErr(pc, ok) ==
    CASE pc = "connect"     -> IF ok THEN "create_role" ELSE "done"
      [] pc = "create_role" -> IF ok THEN "create_db"   ELSE "done"
      [] pc = "create_db"   -> IF ok THEN "revoke"      ELSE "drop_db"
      [] pc = "revoke"      -> IF ok THEN "task"        ELSE "drop_db"
      [] pc = "task"        -> "drop_db"
      [] pc = "drop_db"     -> "drop_role"
      [] pc = "drop_role"   -> "done"

\* lib.rs:147-183  control flow of with_temporary_database: where control
\* goes after the call at pc returned Ok (ok) or Err (~ok).  A `?` outside
\* the try_ blocks returns from the function, a `?` inside a try_ block
\* leaves that block only.
DbNext(pc, ok) ==
    CASE pc = "connect"     -> IF ok THEN "create_role" ELSE "done"
      [] pc = "create_role" -> IF ok THEN "create_db"   ELSE "done"
      [] pc = "create_db"   -> IF ok THEN "revoke"      ELSE "drop_role"
      [] pc = "revoke"      -> IF ok THEN "task"        ELSE "drop_db"
      [] pc = "task"        -> "drop_db"
      [] pc = "drop_db"     -> "drop_role"
      [] pc = "drop_role"   -> "done"

\* lib.rs:27-89  control flow of with_temporary_postgres
PgNext(pc, ok) ==
    CASE pc = "docker"  -> IF ok THEN "create"  ELSE "done"
      [] pc = "create"  -> IF ok THEN "start"   ELSE "done"
      [] pc = "start"   -> IF ok THEN "list"    ELSE "remove"
      [] pc = "list"    -> IF ok THEN "connect" ELSE "stop"
      [] pc = "connect" -> IF ok THEN "task"    ELSE "stop"
      [] pc = "task"    -> "stop"
      [] pc = "stop"    -> "remove"
      [] pc = "remove"  -> "done"

\* Then with an earlier error kept in preference to the call's error
Then_KeepFirst(callOk, e, prev) ==
    IF callOk \/ ~prev.ok THEN prev ELSE Err(e)

\* Then with the call's error replaced by one generic cleanup error
Then_Generic(callOk, e, prev) == IF callOk THEN prev ELSE Err("CleanupFailed")

\* Then with the call's error discarded instead of returned
Then_Ignore(callOk, e, prev) == prev

\* lib.rs:178-179, 181-183, 85-86, 88-89   `call?; prev` : the value of a
\* block that makes a call, returns its error with `?`, and otherwise
\* yields the result computed before it
Then(callOk, e, prev) == IF callOk THEN prev ELSE Err(e)

\* TaskResult with `?` applied to the task's value
TaskResult_Question(v) == IF v = TaskOk THEN Ok(v) ELSE Err(v)

\* lib.rs:115, 175, 83  the task's value is wrapped in Ok, whatever it is
TaskResult(v) == Ok(v)

\* lib.rs:211-216  the outer task of tests::temp_pg: `with_temporary_database(..)?`
\* as the value of a closure returning Result<()>
Flatten(r) == IF r.ok THEN r.val ELSE "Err(" \o r.err \o ")"

(* Port discovery *)

\* Option<u64> as a sequence of length 0 (None) or 1 (Some)
PublicPorts == {<<>>, <<32768>>, <<32769>>}

\* dockworker::container::Port, the two fields the code reads
PortRecords == [PrivatePort : {PostgresPrivatePort, 80}, PublicPort : PublicPorts]

\* every Ports list of at most MaxPorts entries
PortLists == UNION {[1..k -> PortRecords] : k \in 0..MaxPorts}

\* lib.rs:53  flat_map(|p| p.PublicPort): the Some values, in order
RECURSIVE FlatMapPublic(_)
FlatMapPublic(ps) ==
    IF ps = <<>> THEN <<>>
    ELSE Head(ps).PublicPort \o FlatMapPublic(Tail(ps))

\* lib.rs:50-58  the first public port published for private port 5432,
\* cast to u16; <<>> when there is none
FindPostgresPort(ports) ==
    LET matching == SelectSeq(ports, LAMBDA p : p.PrivatePort = PostgresPrivatePort)
        public   == FlatMapPublic(matching)
    IN  IF public = <<>> THEN <<>> ELSE <<Head(public) % U16>>

(* Strings.  A string is a sequence of segments, a segment being a run   *)
(* of characters of which the length and the set of characters occurring  *)
(* in it are kept.                                                         *)

Upper == <<"A", "B", "C", "D", "E", "F", "G", "H", "I", "J", "K", "L", "M",
           "N", "O", "P", "Q", "R", "S", "T", "U", "V", "W", "X", "Y", "Z">>

Lower == <<"a", "b", "c", "d", "e", "f", "g", "h", "i", "j", "k", "l", "m",
           "n", "o", "p", "q", "r", "s", "t", "u", "v", "w", "x", "y", "z">>

Digits == {"0", "1", "2", "3", "4", "5", "6", "7", "8", "9"}

\* lib.rs:107  distributions::Alphanumeric: A-Z, a-z, 0-9
Alphanumeric ==
    {Upper[i] : i \in 1..26} \cup {Lower[i] : i \in 1..26} \cup Digits

\* the characters the generator yields in a run: an upper case letter, a
\* lower case letter and a digit when with_temporary_database is entered
\* directly, one upper case letter when it is entered as the nested task
RngSample(m) == IF m = "db" THEN {"K", "q", "7"} ELSE {"K"}

\* to_ascii_lowercase left out
ToAsciiLowercase_Identity(c) == c

\* lib.rs:107  char::to_ascii_lowercase
ToAsciiLowercase(c) ==
    IF \E i \in 1..26 : Upper[i] = c
    THEN Lower[CHOOSE i \in 1..26 : Upper[i] = c]
    ELSE c

EmptySegment == [n |-> 0, chars |-> {}]

\* lib.rs:110  collect(): one more character onto the string
Push(seg, c) == [n |-> seg.n + 1, chars |-> seg.chars \cup {c}]

\* lib.rs:104-111  random_string(length): every string the generator can
\* yield, taking `length` samples of the alphabet, each lowercased
RECURSIVE random_string(_, _)
random_string(length, alphabet) ==
    IF length = 0 THEN {EmptySegment}
    ELSE {Push(seg, ToAsciiLowercase(c)) :
              seg \in random_string(length - 1, alphabet), c \in alphabet}

\* lib.rs:125  the literal "kpg_fixture_"
Prefix == [n |-> 12, chars |-> {"k", "p", "g", "_", "f", "i", "x", "t", "u", "r", "e"}]

\* lib.rs:60-61  the literal "postgres"
PostgresLit == <<[n |-> 8, chars |-> {"p", "o", "s", "t", "g", "r", "e"}]>>

\* lib.rs:125  format!("kpg_fixture_{}", s)
Format(s) == <<Prefix, s>>

(* Connection parameters *)

\* ConnectParams::builder(): the builder's defaults
BuilderNew ==
    [port |-> 5432, user |-> <<>>, database |-> <<>>, options |-> <<>>,
     connect_timeout |-> <<>>]

SetPort(b, p) == [b EXCEPT !.port = p]

SetUser(b, name, password) ==
    [b EXCEPT !.user = <<[name |-> name, password |-> password]>>]

SetDatabase(b, d) == [b EXCEPT !.database = <<d>>]

SetConnectTimeout(b, t) == [b EXCEPT !.connect_timeout = t]

\* Builder::option pushes the pair onto the builder's list
AddOption(b, kv) == [b EXCEPT !.options = Append(b.options, kv)]

\* lib.rs:140-142  for (key, value) in params.options() { .. }
RECURSIVE AddOptions(_, _)
AddOptions(b, opts) ==
    IF opts = <<>> THEN b
    ELSE AddOptions(AddOption(b, Head(opts)), Tail(opts))

Build(b, host) ==
    [host |-> host, port |-> b.port, user |-> b.user, database |-> b.database,
     options |-> b.options, connect_timeout |-> b.connect_timeout]

\* not assigned yet
NoParams == Build(BuilderNew, "-")

NoString == <<>>

\* lib.rs:57-62  connect_params of with_temporary_postgres
PgConnectParams(port) ==
    Build(SetDatabase(SetUser(SetPort(BuilderNew, port), PostgresLit, <<>>),
                      PostgresLit),
          "localhost")

\* DeriveParams with the loop over the options left out
DeriveParams_NoOptions(p, name, password) ==
    Build(SetConnectTimeout(
              SetDatabase(SetUser(SetPort(BuilderNew, p.port), name, <<password>>),
                          name),
              p.connect_timeout),
          p.host)

\* lib.rs:133-145  new_params
DeriveParams(p, name, password) ==
    Build(AddOptions(
              SetConnectTimeout(
                  SetDatabase(SetUser(SetPort(BuilderNew, p.port), name, <<password>>),
                              name),
                  p.connect_timeout),
              p.options),
          p.host)

\* the extra options a caller may give
OptionPairs == {<<"application_name", "t">>, <<"sslmode", "disable">>}

OptionLists == UNION {[1..k -> OptionPairs] : k \in 0..MaxOptions}

\* the server parameters a caller may give with_temporary_database
ParamInputs ==
    [host : {"localhost", "db.internal"},
     port : {5432, 6543},
     user : {<<[name |-> PostgresLit, password |-> <<>>]>>},
     database : {<<PostgresLit>>},
     options : OptionLists,
     connect_timeout : {<<>>, <<5>>}]

(* Concurrent invocations: their local state and the shared server *)

Procs == 1..NumInvocations

\* the strings random_string can yield for a name, numbered
Names == 1..NumInvocations

\* the locals of one invocation of with_temporary_database: position,
\* the results of the two try_ blocks and of the function, and conn
NewInvocation(pc) ==
    [pc |-> pc, inner |-> Unset, outer |-> Unset, ret |-> Unset, conn |-> FALSE]

\* no concurrent invocation is running
NoneConcurrent ==
    /\ invs = [p \in Procs |-> NewInvocation("idle")]
    /\ names = [p \in Procs |-> 0]
    /\ serverRoles = {} /\ serverDbs = {}
    /\ alone = [p \in Procs |-> [roles |-> {}, dbs |-> {}]]
    /\ issued = {}
    /\ peak = 0

\* lib.rs:147-183  the locals of an invocation after the call at its
\* position returned Ok (ok) or Err: where control goes, which result is
\* assigned, and conn, dropped when the function returns
AfterCall(i, ok) ==
    LET to == DbNext(i.pc, ok)
        e  == IF i.pc = "connect" THEN "Postgres(connect)"
              ELSE StmtErr(Statement(i.pc))
        j  == [i EXCEPT !.pc = to,
                        !.conn = IF i.pc = "connect" THEN ok /\ to # "done"
                                 ELSE i.conn /\ to # "done"]
    IN  CASE i.pc \in {"connect", "create_role"} ->
                 [j EXCEPT !.ret = IF ok THEN i.ret ELSE Err(e)]
          [] i.pc = "create_db" ->
                 [j EXCEPT !.outer = IF ok THEN i.outer ELSE Err(e)]
          [] i.pc = "revoke" ->
                 [j EXCEPT !.inner = IF ok THEN i.inner ELSE Err(e)]
          [] i.pc = "drop_db" ->
                 [j EXCEPT !.outer = Then(ok, e, i.inner)]
          [] i.pc = "drop_role" ->
                 [j EXCEPT !.ret = Then(ok, e, i.outer)]

\* lib.rs:175  the locals of an invocation after its task returned v
AfterTask(i, v) ==
    [i EXCEPT !.pc = DbNext("task", TRUE), !.inner = TaskResult(v)]

\* lib.rs:175  the locals of an invocation after its task panicked: the
\* function is left by unwinding and conn is dropped
AfterPanic(i) == [i EXCEPT !.pc = "panicked", !.conn = FALSE]

\* every invocation interpolating the name the first one generated
TargetOf_First(p) == names[1]

\* lib.rs:154-181  the name the statements of invocation p interpolate: the
\* dbname that invocation generated at lib.rs:125
TargetOf(p) == names[p]

\* Server: whether it accepts a statement naming t, given the roles and
\* databases it holds.  CREATE fails on a name already there, CREATE
\* DATABASE .. OWNER t needs role t, REVOKE and DROP fail on a name that is
\* not there, and a role owning a database cannot be dropped.
Accepts(stmt, t, roles, dbs) ==
    CASE stmt = "CREATE ROLE"     -> t \notin roles
      [] stmt = "CREATE DATABASE" -> t \notin dbs /\ t \in roles
      [] stmt = "REVOKE"          -> t \in dbs
      [] stmt = "DROP DATABASE"   -> t \in dbs
      [] stmt = "DROP ROLE"       -> t \in roles /\ t \notin dbs

\* Server: a set of names after t was put in (b) or taken out
With(S, t, b) == IF b THEN S \cup {t} ELSE S \ {t}

\* Server: the roles after a statement naming t, accepted or not
RolesAfter(stmt, t, ok, roles) ==
    IF ok THEN With(roles, t, RoleAfter(stmt, t \in roles)) ELSE roles

\* Server: the databases after a statement naming t, accepted or not
DbsAfter(stmt, t, ok, dbs) ==
    IF ok THEN With(dbs, t, DbAfter(stmt, t \in dbs)) ELSE dbs

(* Initial state: the caller has just entered one of the entry points *)

Init ==
    /\ mode \in Modes
    /\ pgpc = IF mode = "db" THEN "idle" ELSE "docker"
    /\ dbpc = IF mode = "db" THEN "generate" ELSE "idle"
    /\ n = 0
    /\ lastErr = "-"
    /\ postgres_port = 0
    /\ pgInner = Unset /\ pgOuter = Unset /\ pgRet = Unset
    /\ dbInner = Unset /\ dbOuter = Unset /\ dbRet = Unset
    /\ containerExists = FALSE /\ containerRunning = FALSE
    /\ roleExists = FALSE /\ dbExists = FALSE
    /\ connOpen = FALSE /\ pgConnOpen = FALSE
    /\ calls = <<>>
    /\ IF mode = "db" THEN params \in ParamInputs ELSE params = NoParams
    /\ new_params = NoParams
    /\ dbname = NoString /\ dbmainuserpass = NoString
    /\ connParams = NoParams /\ taskParams = NoParams
    /\ ddl = {}
    /\ NoneConcurrent

(* with_temporary_database *)

\* lib.rs:125-127  dbname and dbmainuserpass are generated
GenerateIdentity ==
    /\ dbpc = "generate"
    /\ \E name \in random_string(NameLen, RngSample(mode)),
          pass \in random_string(PassLen, RngSample(mode)) :
        /\ dbname' = Format(name)
        /\ dbmainuserpass' = <<pass>>
    /\ dbpc' = "derive"
    /\ UNCHANGED <<concVars, mode, pgVars, dbInner, dbOuter, dbRet, roleExists, dbExists,
                   connOpen, calls, params, new_params, connParams, taskParams,
                   ddl>>

\* lib.rs:133-145  new_params is built from params and the identity
DeriveNewParams ==
    /\ dbpc = "derive"
    /\ new_params' = DeriveParams(params, dbname, dbmainuserpass)
    /\ dbpc' = "connect"
    /\ UNCHANGED <<concVars, mode, pgVars, dbInner, dbOuter, dbRet, roleExists, dbExists,
                   connOpen, calls, params, dbname, dbmainuserpass, connParams,
                   taskParams, ddl>>

\* lib.rs:154, 164, 169, 178, 181  conn.batch_execute at position dbpc: the
\* statement, which names dbname, is logged with the connection it goes
\* over, and takes effect on the server iff it succeeds
BatchExecute(ok) ==
    LET stmt == Statement(dbpc) IN
    /\ calls' = Append(calls, Call(stmt, IF ok THEN "ok" ELSE "err"))
    /\ ddl' = ddl \cup {[stmt |-> stmt, name |-> dbname,
                         conn |-> connParams, open |-> connOpen]}
    /\ roleExists' = IF ok THEN RoleAfter(stmt, roleExists) ELSE roleExists
    /\ dbExists'   = IF ok THEN DbAfter(stmt, dbExists) ELSE dbExists

\* DbGoto with conn dropped once the database has been dropped
DbGoto_CloseEarly(to) ==
    /\ dbpc' = to
    /\ connOpen' = IF to \in {"drop_role", "done"} THEN FALSE ELSE connOpen

\* control reaches `to`; at the end of the function conn is dropped
DbGoto(to) ==
    /\ dbpc' = to
    /\ connOpen' = IF to = "done" THEN FALSE ELSE connOpen

\* lib.rs:147  let conn = Connection::connect(params, ..)?;
DbConnect ==
    /\ dbpc = "connect"
    /\ \E ok \in BOOLEAN :
        /\ calls' = Append(calls, Call("db:connect", IF ok THEN "ok" ELSE "err"))
        /\ dbpc' = DbNext("connect", ok)
        /\ connOpen' = ok
        /\ connParams' = IF ok THEN params ELSE connParams
        /\ dbRet' = IF ok THEN dbRet ELSE Err("Postgres(connect)")
    /\ UNCHANGED <<concVars, mode, pgVars, idVars, taskParams, ddl, dbInner, dbOuter,
                   roleExists, dbExists>>

\* lib.rs:154-161  CREATE ROLE ...?;
CreateRole ==
    /\ dbpc = "create_role"
    /\ \E ok \in BOOLEAN :
        /\ BatchExecute(ok)
        /\ DbGoto(DbNext("create_role", ok))
        /\ dbRet' = IF ok THEN dbRet ELSE Err(StmtErr(Statement(dbpc)))
    /\ UNCHANGED <<concVars, mode, pgVars, idVars, connParams, taskParams, dbInner, dbOuter>>

\* lib.rs:163-167  CREATE DATABASE ...?; inside the outer try_ block
CreateDatabase ==
    /\ dbpc = "create_db"
    /\ \E ok \in BOOLEAN :
        /\ BatchExecute(ok)
        /\ DbGoto(DbNext("create_db", ok))
        /\ dbOuter' = IF ok THEN dbOuter ELSE Err(StmtErr(Statement(dbpc)))
    /\ UNCHANGED <<concVars, mode, pgVars, idVars, connParams, taskParams, dbInner, dbRet>>

\* lib.rs:168-172  REVOKE ...?; inside the inner try_ block
Revoke ==
    /\ dbpc = "revoke"
    /\ \E ok \in BOOLEAN :
        /\ BatchExecute(ok)
        /\ DbGoto(DbNext("revoke", ok))
        /\ dbInner' = IF ok THEN dbInner ELSE Err(StmtErr(Statement(dbpc)))
    /\ UNCHANGED <<concVars, mode, pgVars, idVars, connParams, taskParams, dbOuter, dbRet>>

\* lib.rs:175  f(new_params, tls_mode): the task returns a value, which the
\* inner try_ block wraps in Ok, or panics, which unwinds out of
\* with_temporary_database (conn is dropped on the way)
DbTask ==
    /\ dbpc = "task"
    /\ taskParams' = new_params
    /\ \/ \E v \in TaskValues :
            /\ calls' = Append(calls, Call("db:task", v))
            /\ dbInner' = TaskResult(v)
            /\ DbGoto(DbNext("task", TRUE))
       \/ /\ calls' = Append(calls, Call("db:task", "panic"))
          /\ dbpc' = "panicked"
          /\ connOpen' = FALSE
          /\ UNCHANGED dbInner
    /\ UNCHANGED <<concVars, mode, pgVars, idVars, connParams, ddl, dbOuter, dbRet, roleExists, dbExists>>

\* lib.rs:178-179  DROP DATABASE ...?; result?
DropDatabase ==
    /\ dbpc = "drop_db"
    /\ \E ok \in BOOLEAN :
        /\ BatchExecute(ok)
        /\ DbGoto(DbNext("drop_db", ok))
        /\ dbOuter' = Then(ok, StmtErr(Statement(dbpc)), dbInner)
    /\ UNCHANGED <<concVars, mode, pgVars, idVars, connParams, taskParams, dbInner, dbRet>>

\* lib.rs:181-183  DROP ROLE ...?; result
DropRole ==
    /\ dbpc = "drop_role"
    /\ \E ok \in BOOLEAN :
        /\ BatchExecute(ok)
        /\ DbGoto(DbNext("drop_role", ok))
        /\ dbRet' = Then(ok, StmtErr(Statement(dbpc)), dbOuter)
    /\ UNCHANGED <<concVars, mode, pgVars, idVars, connParams, taskParams, dbInner, dbOuter>>

(* with_temporary_postgres *)

Res(ok) == IF ok THEN "ok" ELSE "err"

\* lib.rs:27  dockworker::Docker::connect_with_defaults()?
DockerConnect ==
    /\ pgpc = "docker"
    /\ \E ok \in BOOLEAN :
        /\ calls' = Append(calls, Call("docker", Res(ok)))
        /\ pgpc' = PgNext("docker", ok)
        /\ pgRet' = IF ok THEN pgRet ELSE Err("Docker(connect)")
    /\ UNCHANGED <<concVars, mode, dbVars, sbVars, n, lastErr, postgres_port, pgInner, pgOuter,
                   containerExists, containerRunning, pgConnOpen>>

\* lib.rs:29-37  docker.create_container(..)?.id
CreateContainer ==
    /\ pgpc = "create"
    /\ \E ok \in BOOLEAN :
        /\ calls' = Append(calls, Call("create_container", Res(ok)))
        /\ pgpc' = PgNext("create", ok)
        /\ containerExists' = ok
        /\ pgRet' = IF ok THEN pgRet ELSE Err("Docker(create)")
    /\ UNCHANGED <<concVars, mode, dbVars, sbVars, n, lastErr, postgres_port, pgInner, pgOuter,
                   containerRunning, pgConnOpen>>

\* lib.rs:40  docker.start_container(&container_id)?; in the outer closure
StartContainer ==
    /\ pgpc = "start"
    /\ \E ok \in BOOLEAN :
        /\ calls' = Append(calls, Call("start_container", Res(ok)))
        /\ pgpc' = PgNext("start", ok)
        /\ containerRunning' = ok
        /\ pgOuter' = IF ok THEN pgOuter ELSE Err("Docker(start)")
    /\ UNCHANGED <<concVars, mode, dbVars, sbVars, n, lastErr, postgres_port, pgInner, pgRet,
                   containerExists, pgConnOpen>>

\* lib.rs:44-55  list_containers(..)?, first().unwrap(), the port lookup.
\* The daemon answers with an error, with no container (the filter matched
\* nothing: unwrap panics and unwinds out of the function) or with the
\* container and some Ports list.
ListContainers ==
    /\ pgpc = "list"
    /\ \/ /\ calls' = Append(calls, Call("list_containers", "err"))
          /\ pgInner' = Err("Docker(list)")
          /\ pgpc' = PgNext("list", FALSE)
          /\ UNCHANGED postgres_port
       \/ /\ calls' = Append(calls, Call("list_containers", "empty"))
          /\ pgpc' = "panicked"
          /\ UNCHANGED <<pgInner, postgres_port>>
       \/ \E ports \in PortLists :
            LET found == FindPostgresPort(ports) IN
            /\ calls' = Append(calls, Call("list_containers",
                                           IF found = <<>> THEN "noport" ELSE "ok"))
            /\ pgpc' = PgNext("list", found # <<>>)
            /\ pgInner' = IF found = <<>>
                          THEN Err("DockerCreationFailed(Failed to find postgres port)")
                          ELSE pgInner
            /\ postgres_port' = IF found = <<>> THEN postgres_port ELSE Head(found)
    /\ UNCHANGED <<concVars, mode, dbVars, sbVars, n, lastErr, pgOuter, pgRet,
                   containerExists, containerRunning, pgConnOpen>>

\* lib.rs:66-80  one iteration of the connect loop: n += 1, connect; Ok
\* breaks with the connection, Err breaks with that error once n >= 100 and
\* otherwise goes on to the sleep
ConnectAttempt ==
    /\ pgpc = "connect"
    /\ n' = n + 1
    /\ \/ /\ calls' = Append(calls, Call("connect", "ok"))
          /\ pgConnOpen' = TRUE
          /\ pgpc' = PgNext("connect", TRUE)
          /\ UNCHANGED <<lastErr, pgInner>>
       \/ \E e \in ConnectErrors :
            /\ lastErr' = e
            /\ UNCHANGED pgConnOpen
            /\ IF n' >= MaxAttempts
               THEN /\ calls' = Append(calls, Call("connect", "err"))
                    /\ pgInner' = Err(e)
                    /\ pgpc' = PgNext("connect", FALSE)
               ELSE /\ pgpc' = "sleep"
                    /\ UNCHANGED <<calls, pgInner>>
    /\ UNCHANGED <<concVars, mode, dbVars, sbVars, postgres_port, pgOuter, pgRet,
                   containerExists, containerRunning>>

\* lib.rs:79  std::thread::sleep(Duration::from_millis(100))
Sleep ==
    /\ pgpc = "sleep"
    /\ pgpc' = "connect"
    /\ UNCHANGED <<concVars, mode, dbVars, sbVars, n, lastErr, postgres_port, pgInner, pgOuter,
                   pgRet, containerExists, containerRunning, pgConnOpen, calls>>

\* lib.rs:83  Ok(f(connect_params, tls_mode, connection?)) with a task that
\* does not call back into this crate: it returns a value or panics.  The
\* connection was moved into the task and is gone when the task is over.
PgTask ==
    /\ pgpc = "task"
    /\ mode = "pg"
    /\ pgConnOpen' = FALSE
    /\ \/ \E v \in TaskValues :
            /\ calls' = Append(calls, Call("pg:task", v))
            /\ pgInner' = TaskResult(v)
            /\ pgpc' = PgNext("task", TRUE)
       \/ /\ calls' = Append(calls, Call("pg:task", "panic"))
          /\ pgpc' = "panicked"
          /\ UNCHANGED pgInner
    /\ UNCHANGED <<concVars, mode, dbVars, sbVars, n, lastErr, postgres_port, pgOuter, pgRet,
                   containerExists, containerRunning>>

\* lib.rs:209-211  the task of tests::temp_pg enters with_temporary_database
PgTaskCall ==
    /\ pgpc = "task"
    /\ mode = "nested"
    /\ dbpc = "idle"
    /\ calls' = Append(calls, Call("pg:task", "call"))
    /\ pgpc' = "in_task"
    /\ dbpc' = "generate"
    /\ params' = PgConnectParams(postgres_port)
    /\ UNCHANGED <<concVars, mode, new_params, dbname, dbmainuserpass, connParams,
                   taskParams, ddl, n, lastErr, postgres_port, pgInner, pgOuter, pgRet,
                   containerExists, containerRunning, pgConnOpen,
                   dbInner, dbOuter, dbRet, roleExists, dbExists, connOpen>>

\* lib.rs:216-217, 83  with_temporary_database returned: the task applies `?`
\* to it and returns, its connection argument is dropped
PgTaskReturn ==
    /\ pgpc = "in_task"
    /\ dbpc = "done"
    /\ calls' = Append(calls, Call("pg:task:return", Flatten(dbRet)))
    /\ pgInner' = TaskResult(Flatten(dbRet))
    /\ pgConnOpen' = FALSE
    /\ pgpc' = PgNext("task", TRUE)
    /\ UNCHANGED <<concVars, mode, dbVars, sbVars, n, lastErr, postgres_port, pgOuter, pgRet,
                   containerExists, containerRunning>>

\* a panic of the inner task goes on unwinding through the outer task and
\* through with_temporary_postgres
PgTaskUnwind ==
    /\ pgpc = "in_task"
    /\ dbpc = "panicked"
    /\ pgpc' = "panicked"
    /\ pgConnOpen' = FALSE
    /\ UNCHANGED <<concVars, mode, dbVars, sbVars, n, lastErr, postgres_port, pgInner, pgOuter,
                   pgRet, containerExists, containerRunning, calls>>

\* lib.rs:85-86  docker.stop_container(..)?; Ok(result?)
StopContainer ==
    /\ pgpc = "stop"
    /\ \E ok \in BOOLEAN :
        /\ calls' = Append(calls, Call("stop_container", Res(ok)))
        /\ containerRunning' = IF ok THEN FALSE ELSE containerRunning
        /\ pgOuter' = Then(ok, "Docker(stop)", pgInner)
        /\ pgpc' = PgNext("stop", ok)
    /\ UNCHANGED <<concVars, mode, dbVars, sbVars, n, lastErr, postgres_port, pgInner, pgRet,
                   containerExists, pgConnOpen>>

\* lib.rs:88-89  docker.remove_container(.., force)?; Ok(result?)
RemoveContainer ==
    /\ pgpc = "remove"
    /\ \E ok \in BOOLEAN :
        /\ calls' = Append(calls, Call("remove_container", Res(ok)))
        /\ containerExists' = IF ok THEN FALSE ELSE containerExists
        /\ containerRunning' = IF ok THEN FALSE ELSE containerRunning
        /\ pgRet' = Then(ok, "Docker(remove)", pgOuter)
        /\ pgpc' = PgNext("remove", ok)
    /\ UNCHANGED <<concVars, mode, dbVars, sbVars, n, lastErr, postgres_port, pgInner, pgOuter,
                   pgConnOpen>>

Next ==
    \/ GenerateIdentity \/ DeriveNewParams
    \/ DbConnect \/ CreateRole \/ CreateDatabase \/ Revoke \/ DbTask
    \/ DropDatabase \/ DropRole
    \/ DockerConnect \/ CreateContainer \/ StartContainer \/ ListContainers
    \/ ConnectAttempt \/ Sleep \/ PgTask \/ PgTaskCall \/ PgTaskReturn
    \/ PgTaskUnwind \/ StopContainer \/ RemoveContainer

Spec == Init /\ [][Next]_vars

(* Concurrent invocations of with_temporary_database on one server *)

\* every invocation has been entered and has generated its name; two
\* invocations may have generated the same one.  The names are numbered in
\* the order the invocations first use them, so invocation p holds one of
\* the first p names.
ConcInit ==
    /\ mode = "concurrent"
    /\ pgpc = "idle" /\ dbpc = "idle"
    /\ n = 0
    /\ lastErr = "-"
    /\ postgres_port = 0
    /\ pgInner = Unset /\ pgOuter = Unset /\ pgRet = Unset
    /\ dbInner = Unset /\ dbOuter = Unset /\ dbRet = Unset
    /\ containerExists = FALSE /\ containerRunning = FALSE
    /\ roleExists = FALSE /\ dbExists = FALSE
    /\ connOpen = FALSE /\ pgConnOpen = FALSE
    /\ calls = <<>>
    /\ params = NoParams /\ new_params = NoParams
    /\ dbname = NoString /\ dbmainuserpass = NoString
    /\ connParams = NoParams /\ taskParams = NoParams
    /\ ddl = {}
    /\ invs = [p \in Procs |-> NewInvocation("connect")]
    /\ names \in {f \in [Procs -> Names] : \A p \in Procs : f[p] <= p}
    /\ serverRoles = {} /\ serverDbs = {}
    /\ alone = [p \in Procs |-> [roles |-> {}, dbs |-> {}]]
    /\ issued = {}
    /\ peak = 0

\* lib.rs:147  invocation p opens its own connection
ConcConnect(p) ==
    /\ invs[p].pc = "connect"
    /\ \E ok \in BOOLEAN : invs' = [invs EXCEPT ![p] = AfterCall(invs[p], ok)]
    /\ UNCHANGED <<soloVars, names, serverRoles, serverDbs, alone, issued, peak>>

\* lib.rs:154, 164, 169, 178, 181  invocation p issues the statement at its
\* position on its connection.  The statement reaches the server or not
\* (up); a statement that reaches it is accepted or not by what the server
\* holds.  Beside the outcome, the outcome the statement would have had, had
\* p run alone, is recorded.
ConcBatchExecute(p) ==
    /\ invs[p].pc \in {"create_role", "create_db", "revoke", "drop_db", "drop_role"}
    /\ \E up \in BOOLEAN :
        LET stmt == Statement(invs[p].pc)
            t    == TargetOf(p)
            ok   == up /\ Accepts(stmt, t, serverRoles, serverDbs)
            solo == up /\ Accepts(stmt, t, alone[p].roles, alone[p].dbs)
        IN  /\ invs' = [invs EXCEPT ![p] = AfterCall(invs[p], ok)]
            /\ serverRoles' = RolesAfter(stmt, t, ok, serverRoles)
            /\ serverDbs' = DbsAfter(stmt, t, ok, serverDbs)
            /\ alone' = [alone EXCEPT
                   ![p] = [roles |-> RolesAfter(stmt, t, solo, alone[p].roles),
                           dbs   |-> DbsAfter(stmt, t, solo, alone[p].dbs)]]
            /\ issued' = issued \cup
                   {[proc |-> p, stmt |-> stmt, name |-> t, open |-> invs[p].conn,
                     ok |-> ok, solo |-> solo]}
            /\ peak' = IF Cardinality(serverDbs') > peak
                       THEN Cardinality(serverDbs') ELSE peak
    /\ UNCHANGED <<soloVars, names>>

\* lib.rs:175  the task of invocation p returns a value or panics
ConcTask(p) ==
    /\ invs[p].pc = "task"
    /\ \/ \E v \in TaskValues : invs' = [invs EXCEPT ![p] = AfterTask(invs[p], v)]
       \/ invs' = [invs EXCEPT ![p] = AfterPanic(invs[p])]
    /\ UNCHANGED <<soloVars, names, serverRoles, serverDbs, alone, issued, peak>>

ConcNext ==
    \E p \in Procs : ConcConnect(p) \/ ConcBatchExecute(p) \/ ConcTask(p)

ConcSpec == ConcInit /\ [][ConcNext]_vars

TypeOK ==
    /\ mode \in Modes
    /\ n \in 0..MaxAttempts
    /\ postgres_port \in 0..(U16 - 1)
    /\ \A r \in {pgInner, pgOuter, pgRet, dbInner, dbOuter, dbRet} :
          r \in [ok : BOOLEAN, val : STRING, err : STRING]
    /\ {containerExists, containerRunning, roleExists, dbExists,
        connOpen, pgConnOpen} \subseteq BOOLEAN
    /\ RngSample(mode) \subseteq Alphanumeric
    /\ dbname = NoString \/ dbname \in {Format(x) : x \in random_string(NameLen, RngSample(mode))}
    /\ {connParams, taskParams} \subseteq {NoParams, params, new_params}
    /\ \A e \in ddl : e.stmt \in {Statement(pc) : pc \in {"create_role", "create_db", "revoke", "drop_db", "drop_role"}}
    /\ NoneConcurrent

(* Reading the call log *)

Idx(op) == {i \in DOMAIN calls : calls[i].op = op}

Count(op) == Cardinality(Idx(op))

Has(op, res) == \E i \in Idx(op) : calls[i].res = res

\* every call of op1 was made before every call of op2
Before(op1, op2) == \A i \in Idx(op1) : \A j \in Idx(op2) : i < j

DbReturned == dbpc = "done"

PgReturned == pgpc = "done"

DbSetupOps == {"db:connect", "CREATE ROLE", "CREATE DATABASE", "REVOKE"}

DbCleanupOps == {"DROP DATABASE", "DROP ROLE"}

PgSetupOps == {"docker", "create_container", "start_container",
               "list_containers", "connect"}

\* the error value with_temporary_database makes of a failed call
DbErrOf(op) == IF op = "db:connect" THEN "Postgres(connect)" ELSE StmtErr(op)

(* C1 *)

\* C1: in every run of with_temporary_database, whatever fails, DROP
\* DATABASE and DROP ROLE are each issued at most once, and every DROP
\* DATABASE is issued strictly before the DROP ROLE.
C1_DropOrder ==
    /\ Count("DROP DATABASE") <= 1
    /\ Count("DROP ROLE") <= 1
    /\ Before("DROP DATABASE", "DROP ROLE")

\* both statements were issued, the first of them failing
C1_Witness ==
    /\ DbReturned
    /\ Has("DROP DATABASE", "err")
    /\ Count("DROP ROLE") = 1

(* C2 *)

\* C2 as stated: on every return of with_temporary_database neither the
\* sandbox role nor the sandbox database exists.
C2_Original == DbReturned => (~roleExists /\ ~dbExists)

\* C2 amended: when with_temporary_database returns (Ok or Err), the
\* sandbox role exists exactly if a DROP ROLE was issued and failed, and the
\* sandbox database exists exactly if a DROP DATABASE was issued and failed;
\* so on every return on which no DROP statement failed neither exists.
C2_NothingLeftUnlessDropFailed ==
    DbReturned =>
        /\ roleExists <=> Has("DROP ROLE", "err")
        /\ dbExists <=> Has("DROP DATABASE", "err")

\* an Err return after a rollback: REVOKE failed, both drops succeeded
C2_Witness ==
    /\ DbReturned
    /\ Has("REVOKE", "err")
    /\ Has("DROP DATABASE", "ok")
    /\ Has("DROP ROLE", "ok")
    /\ ~roleExists /\ ~dbExists

(* C3 *)

\* C3: when with_temporary_postgres returns Ok the container no longer
\* exists, and when with_temporary_database returns Ok neither the sandbox
\* database nor the sandbox role exists.
C3_OkMeansGone ==
    /\ (PgReturned /\ pgRet.ok) => (~containerExists /\ ~containerRunning)
    /\ (DbReturned /\ dbRet.ok) => (~dbExists /\ ~roleExists)

\* both functions returned Ok, one nested in the other
C3_Witness ==
    /\ mode = "nested"
    /\ PgReturned /\ pgRet.ok
    /\ DbReturned /\ dbRet.ok
    /\ Has("create_container", "ok") /\ Has("CREATE DATABASE", "ok")

(* C4 *)

\* the task of with_temporary_database returned a task-level error value
DbTaskReturnedErr == Has("db:task", TaskErr)

\* the task of with_temporary_postgres returned a task-level error value
PgTaskReturnedErr ==
    \/ Has("pg:task", TaskErr)
    \/ \E i \in Idx("pg:task:return") : calls[i].res # TaskOk

\* the value the task of with_temporary_postgres returned
PgTaskValue ==
    IF mode = "nested"
    THEN calls[CHOOSE i \in Idx("pg:task:return") : TRUE].res
    ELSE calls[CHOOSE i \in Idx("pg:task") : TRUE].res

\* C4: when the task was invoked and returned a task-level error value, the
\* function goes on to attempt every cleanup step (DROP DATABASE then DROP
\* ROLE; stop then remove), and if these all succeed it returns Ok wrapping
\* exactly the task's error value.
C4_TaskErrorSurvivesCleanup ==
    /\ (DbReturned /\ DbTaskReturnedErr) =>
          /\ Count("DROP DATABASE") = 1 /\ Count("DROP ROLE") = 1
          /\ Before("db:task", "DROP DATABASE")
          /\ Before("DROP DATABASE", "DROP ROLE")
          /\ (Has("DROP DATABASE", "ok") /\ Has("DROP ROLE", "ok"))
                => dbRet = Ok(TaskErr)
    /\ (PgReturned /\ PgTaskReturnedErr) =>
          /\ Count("stop_container") = 1 /\ Count("remove_container") = 1
          /\ Before("pg:task", "stop_container")
          /\ Before("stop_container", "remove_container")
          /\ (Has("stop_container", "ok") /\ Has("remove_container", "ok"))
                => pgRet = Ok(PgTaskValue)

\* the inner task returned its error value and it came out of both
\* functions, every cleanup step having succeeded
C4_Witness ==
    /\ mode = "nested"
    /\ PgReturned /\ DbReturned
    /\ Has("db:task", TaskErr)
    /\ dbRet = Ok(TaskErr) /\ pgRet = Ok(TaskErr)
    /\ Has("DROP ROLE", "ok") /\ Has("remove_container", "ok")

(* C5 *)

\* every call of ops that was made before position i succeeded, and each
\* of ops was called before i
AllOkBefore(ops, i) ==
    \A op \in ops : \E j \in Idx(op) : j < i /\ calls[j].res = "ok"

\* C5: the task is invoked at most once, and only after every setup step
\* has succeeded (connect, CREATE ROLE, CREATE DATABASE, REVOKE; docker,
\* create, start, port discovery, connect); if a setup step did not succeed
\* the task is never invoked.
C5_TaskOnlyAfterSetup ==
    /\ Count("db:task") <= 1
    /\ Count("pg:task") <= 1
    /\ \A i \in Idx("db:task") : AllOkBefore(DbSetupOps, i)
    /\ \A i \in Idx("pg:task") : AllOkBefore(PgSetupOps, i) /\ n \in 1..MaxAttempts
    /\ (\E j \in DOMAIN calls : calls[j].op \in DbSetupOps /\ calls[j].res # "ok")
          => Count("db:task") = 0
    /\ (\E j \in DOMAIN calls : calls[j].op \in PgSetupOps /\ calls[j].res # "ok")
          => Count("pg:task") = 0

\* both tasks were invoked, the inner one inside the outer one
C5_Witness ==
    /\ Count("pg:task") = 1
    /\ Count("db:task") = 1
    /\ Before("pg:task", "db:task")

(* C6 *)

\* positions of the calls of with_temporary_database that returned an error
DbFailedIdx ==
    {i \in DOMAIN calls :
        /\ calls[i].op \in DbSetupOps \cup DbCleanupOps
        /\ calls[i].res = "err"}

\* the earliest of them
DbFirstFailed == CHOOSE i \in DbFailedIdx : \A k \in DbFailedIdx : i <= k

\* C6: when a step of with_temporary_database fails and a later cleanup
\* step (DROP DATABASE or DROP ROLE) fails too, the function returns the
\* error of the earliest failure; the cleanup failure never replaces it.
C6_EarliestFailureReturned ==
    (/\ DbReturned
     /\ \E i, j \in DbFailedIdx : i < j /\ calls[j].op \in DbCleanupOps)
        => dbRet = Err(DbErrOf(calls[DbFirstFailed].op))

(* C7 *)

\* C7: if starting the container fails, removal is attempted before the
\* function returns, with no stop, no port discovery, no connect attempt
\* and no task invocation, and the function returns the start error even
\* when the removal fails.
C7_StartFailure ==
    (PgReturned /\ Has("start_container", "err")) =>
        /\ Count("remove_container") = 1
        /\ Before("start_container", "remove_container")
        /\ Count("stop_container") = 0
        /\ Count("list_containers") = 0
        /\ n = 0 /\ Count("connect") = 0
        /\ Count("pg:task") = 0
        /\ pgRet = Err("Docker(start)")

(* C8 *)

\* control has left with_temporary_postgres, by return or by unwinding
PgLeft == pgpc \in {"done", "panicked"}

\* C8: once the container was started, whatever happens afterwards, by the
\* time control leaves with_temporary_postgres stop was attempted exactly
\* once and remove exactly once, stop before remove (so remove is attempted
\* even when stop fails).
C8_StopThenRemove ==
    (PgLeft /\ Has("start_container", "ok")) =>
        /\ Count("stop_container") = 1
        /\ Count("remove_container") = 1
        /\ Before("stop_container", "remove_container")

(* C9 *)

C10_ConnectLoop ==
    /\ n <= MaxAttempts
    /\ (PgReturned /\ Has("connect", "err")) =>
          /\ n = MaxAttempts
          /\ Count("pg:task") = 0
          /\ Count("stop_container") = 1 /\ Count("remove_container") = 1
          /\ Before("stop_container", "remove_container")
          /\ pgRet = Err(lastErr)
    /\ (PgReturned /\ Has("connect", "ok")) =>
          /\ Count("connect") = 1
          /\ Count("pg:task") = 1

(* C11 *)

PortNotFound == Err("DockerCreationFailed(Failed to find postgres port)")

\* the listing gave no public port for private port 5432: no container at
\* all, or a container whose Ports have none
NoPortListed == Has("list_containers", "empty") \/ Has("list_containers", "noport")

\* C11: for every listing of the started container that yields no host port
\* mapped to port 5432, with_temporary_postgres returns the port-discovery
\* error, makes no connect attempt, does not invoke the task, and stops and
\* then removes the container before control leaves it.
C11_PortDiscoveryFailure ==
    (PgLeft /\ NoPortListed) =>
        /\ PgReturned
        /\ pgRet = PortNotFound
        /\ n = 0 /\ Count("connect") = 0
        /\ Count("pg:task") = 0
        /\ Count("stop_container") = 1 /\ Count("remove_container") = 1
        /\ Before("stop_container", "remove_container")

(* C12 *)

\* every release step of with_temporary_database that has something to
\* release was attempted
InnerReleaseAttempted ==
    /\ Has("CREATE DATABASE", "ok") => Count("DROP DATABASE") = 1
    /\ Has("CREATE ROLE", "ok") => Count("DROP ROLE") = 1

\* the administrative connection was opened and is closed again
AdminConnClosed == Has("db:connect", "ok") /\ ~connOpen

\* the server connection of with_temporary_postgres was opened and is
\* closed again
ServerConnClosed == Has("connect", "ok") /\ ~pgConnOpen

\* C12: with with_temporary_database as the task of with_temporary_postgres,
\* acquisition is nested (create, start, server connection, role, database,
\* inner task) and release is the reverse (inner task, DROP DATABASE, DROP
\* ROLE, connections closed, stop, remove): no release step of the outer
\* layer happens before every release step of the inner layer was attempted.
C12_NestedOrder ==
    mode = "nested" =>
        /\ Before("create_container", "start_container")
        /\ Before("start_container", "connect")
        /\ Before("connect", "pg:task")
        /\ Before("pg:task", "db:connect")
        /\ Before("db:connect", "CREATE ROLE")
        /\ Before("CREATE ROLE", "CREATE DATABASE")
        /\ Before("CREATE DATABASE", "db:task")
        /\ Before("db:task", "DROP DATABASE")
        /\ Before("DROP DATABASE", "DROP ROLE")
        /\ Before("DROP ROLE", "stop_container")
        /\ Before("stop_container", "remove_container")
        /\ AdminConnClosed => InnerReleaseAttempted
        /\ ServerConnClosed => (InnerReleaseAttempted /\ ~connOpen)
        /\ Count("stop_container") > 0 => (~connOpen /\ ~pgConnOpen)

(* C13 *)

DbLeft == dbpc \in {"done", "panicked"}

\* the task of with_temporary_postgres panicked (itself, or the inner task
\* it was running)
PgTaskPanicked ==
    \/ Has("pg:task", "panic")
    \/ (Has("pg:task", "call") /\ Has("db:task", "panic"))

\* C13: a panic of the task does not get past the cleanup code: by the time
\* control leaves the provisioning function DROP DATABASE and DROP ROLE
\* (resp. stop and remove) were attempted.
C13_PanicCaptured ==
    /\ (DbLeft /\ Has("db:task", "panic")) =>
          (Count("DROP DATABASE") = 1 /\ Count("DROP ROLE") = 1)
    /\ (PgLeft /\ PgTaskPanicked) =>
          (Count("stop_container") = 1 /\ Count("remove_container") = 1)

(* C14 *)

\* C14: once the task has returned a value, the function returns that value
\* to the caller even when a cleanup step (DROP DATABASE, DROP ROLE; stop,
\* remove) fails afterwards.
C14_TaskValueSurvivesCleanupFailure ==
    /\ DbReturned =>
          \A v \in TaskValues : Has("db:task", v) => dbRet = Ok(v)
    /\ (PgReturned /\ (Count("pg:task:return") = 1
                       \/ \E v \in TaskValues : Has("pg:task", v)))
          => pgRet = Ok(PgTaskValue)

(* C15 *)

\* the task of with_temporary_postgres returned without a failure
PgTaskReturnedOk == Has("pg:task", TaskOk) \/ Has("pg:task:return", TaskOk)

\* C15: when every setup step and the task completed without failure and
\* one cleanup step is the only step that fails, the function returns Err
\* carrying the error of that cleanup step.
C15_OnlyCleanupFails ==
    /\ (DbReturned /\ Has("db:task", TaskOk)) =>
          /\ (Has("DROP DATABASE", "err") /\ Has("DROP ROLE", "ok"))
                => dbRet = Err(StmtErr("DROP DATABASE"))
          /\ (Has("DROP DATABASE", "ok") /\ Has("DROP ROLE", "err"))
                => dbRet = Err(StmtErr("DROP ROLE"))
    /\ (PgReturned /\ PgTaskReturnedOk) =>
          /\ (Has("stop_container", "err") /\ Has("remove_container", "ok"))
                => pgRet = Err("Docker(stop)")
          /\ (Has("stop_container", "ok") /\ Has("remove_container", "err"))
                => pgRet = Err("Docker(remove)")

\* everything succeeded in both layers except stopping the container
C15_Witness ==
    /\ mode = "nested"
    /\ PgReturned
    /\ Has("db:task", TaskOk) /\ dbRet = Ok(TaskOk)
    /\ Has("stop_container", "err") /\ Has("remove_container", "ok")
    /\ pgRet = Err("Docker(stop)")

(* C20 *)

PgOps == PgSetupOps \cup {"stop_container", "remove_container"}

\* positions of the calls of with_temporary_postgres that failed
PgFailedIdx ==
    {i \in DOMAIN calls : calls[i].op \in PgOps /\ calls[i].res # "ok"}

\* the error value with_temporary_postgres makes of the failed call at i
PgErrOf(i) ==
    CASE calls[i].op = "docker"            -> "Docker(connect)"
      [] calls[i].op = "create_container"  -> "Docker(create)"
      [] calls[i].op = "start_container"   -> "Docker(start)"
      [] calls[i].op = "list_containers"   ->
            IF calls[i].res = "noport" THEN PortNotFound.err ELSE "Docker(list)"
      [] calls[i].op = "connect"           -> lastErr
      [] calls[i].op = "stop_container"    -> "Docker(stop)"
      [] calls[i].op = "remove_container"  -> "Docker(remove)"

Last(S) == CHOOSE i \in S : \A k \in S : k <= i

\* C20: when a provisioning function returns, it returns Ok(v) if and only
\* if every setup step and every attempted cleanup step succeeded, and v is
\* then the value the task returned; when at least one step failed it
\* returns Err with the error of the step that failed last in execution
\* order; DROP ROLE is attempted after a failed DROP DATABASE.
C20_ResultRule ==
    /\ DbReturned =>
          /\ dbRet.ok <=> (DbFailedIdx = {})
          /\ dbRet.ok => (dbRet.val \in TaskValues /\ Has("db:task", dbRet.val))
          /\ DbFailedIdx # {} => dbRet = Err(DbErrOf(calls[Last(DbFailedIdx)].op))
          /\ Has("DROP DATABASE", "err") =>
                (Count("DROP ROLE") = 1 /\ Before("DROP DATABASE", "DROP ROLE"))
    /\ PgReturned =>
          /\ pgRet.ok <=> (PgFailedIdx = {})
          /\ pgRet.ok => pgRet.val = PgTaskValue
          /\ PgFailedIdx # {} => pgRet = Err(PgErrOf(Last(PgFailedIdx)))

\* three steps failed, REVOKE, DROP DATABASE and DROP ROLE, and the error
\* of the last one came back
C20_Witness ==
    /\ DbReturned
    /\ Has("REVOKE", "err")
    /\ Has("DROP DATABASE", "err")
    /\ Has("DROP ROLE", "err")
    /\ dbRet = Err(StmtErr("DROP ROLE"))

(* C19 *)

\* [a-z0-9]
LowerAlnum == {Lower[i] : i \in 1..26} \cup Digits

CharsOf(str) == UNION {str[i].chars : i \in DOMAIN str}

LenOf(str) == IF str = <<>> THEN 0 ELSE str[1].n + (IF Len(str) > 1 THEN str[2].n ELSE 0)

IdentityGenerated == dbname # NoString

\* C19 as stated: every character of the database name, of the role name
\* (the same string) and of the password is within [a-z0-9], the names
\* carry at least 20 generated characters and the password at least 32
C19_Original ==
    IdentityGenerated =>
        /\ CharsOf(dbname) \subseteq LowerAlnum
        /\ CharsOf(dbmainuserpass) \subseteq LowerAlnum
        /\ dbname[2].n >= NameLen
        /\ dbmainuserpass[1].n >= PassLen

\* C19: the name is the literal kpg_fixture_ followed by exactly 20
\* generated characters, the password is exactly 32 generated characters,
\* every generated character is within [a-z0-9], and the underscore of the
\* literal is the only character of the name outside [a-z0-9]
C19_GeneratedAlphabet ==
    IdentityGenerated =>
        /\ Len(dbname) = 2 /\ dbname[1] = Prefix
        /\ dbname[2].n = NameLen
        /\ dbname[2].chars \subseteq LowerAlnum
        /\ CharsOf(dbname) \ LowerAlnum = {"_"}
        /\ LenOf(dbname) = Prefix.n + NameLen
        /\ Len(dbmainuserpass) = 1
        /\ dbmainuserpass[1].n = PassLen
        /\ CharsOf(dbmainuserpass) \subseteq LowerAlnum

\* an identity whose generator yielded an upper case letter, a lower case
\* letter and a digit, for the name and for the password
C19_Witness ==
    /\ IdentityGenerated
    /\ dbname[2].chars = {"k", "q", "7"}
    /\ dbmainuserpass[1].chars = {"k", "q", "7"}
    /\ dbpc = "done"

(* C16 *)

DbTaskCalled == Idx("db:task") # {}

\* C16: the parameters handed to the task have the host, port, connect
\* timeout and extra options (same pairs, same order) of the server
\* parameters, the generated name as user and as database, and the generated
\* password; that name is the one every statement of the invocation creates,
\* revokes on or drops; and the server parameters are never changed while
\* with_temporary_database runs
C16_DerivedParams ==
    /\ [](DbTaskCalled =>
            /\ taskParams.host = params.host
            /\ taskParams.port = params.port
            /\ taskParams.connect_timeout = params.connect_timeout
            /\ taskParams.options = params.options
            /\ taskParams.user = <<[name |-> dbname, password |-> <<dbmainuserpass>>]>>
            /\ taskParams.database = <<dbname>>
            /\ IdentityGenerated
            /\ \A e \in ddl : e.name = dbname)
    /\ [][dbpc # "idle" => params' = params]_vars

\* the task was given parameters derived from server parameters with a
\* non-default host, port and timeout and two different extra options, and
\* the function went on to drop what it created
C16_Witness ==
    /\ DbTaskCalled
    /\ params.host = "db.internal" /\ params.port = 6543
    /\ params.connect_timeout = <<5>>
    /\ Len(params.options) = 2 /\ params.options[1] # params.options[2]
    /\ taskParams.options = params.options
    /\ Has("DROP DATABASE", "ok") /\ Has("DROP ROLE", "ok")

(* C17 *)

DdlStatements ==
    {"CREATE ROLE", "CREATE DATABASE", "REVOKE", "DROP DATABASE", "DROP ROLE"}

\* with_temporary_database is running: entered, and neither returned nor
\* left by a panic of the task
DbInProgress == dbpc \notin {"idle", "done", "panicked"}

\* C17: the administrative connection is opened at most once, from the
\* server parameters; every statement in the log was issued on it while it
\* was open, and never on a connection made from the parameters derived for
\* the task; and while the function runs and its role or database exists on
\* the server, the connection is open
C17_AdminConnection ==
    /\ Count("db:connect") <= 1
    /\ {calls[i].op : i \in DOMAIN calls} \cap DdlStatements = {e.stmt : e \in ddl}
    /\ \A e \in ddl :
          /\ e.stmt \in DdlStatements
          /\ Has("db:connect", "ok")
          /\ e.open
          /\ e.conn = params
          /\ e.conn # new_params
          /\ e.conn # taskParams
    /\ (DbInProgress /\ (roleExists \/ dbExists)) => connOpen

\* the task has returned, the database was dropped over the administrative
\* connection and the role, still on the server, is about to be
C17_Witness ==
    /\ dbpc = "drop_role"
    /\ DbTaskCalled /\ taskParams = new_params
    /\ Has("DROP DATABASE", "ok")
    /\ roleExists /\ ~dbExists /\ connOpen
    /\ {e.stmt : e \in ddl} = DdlStatements \ {"DROP ROLE"}

(* C18 *)

NamesDistinct == \A p, q \in Procs : p # q => names[p] # names[q]

AllReturnedOk == \A p \in Procs : invs[p].pc = "done" /\ invs[p].ret.ok

\* C18: when the concurrent invocations generated different names, every
\* statement an invocation issued named its own name, went over its own
\* open connection and had the outcome it would have had with that
\* invocation running alone; the server holds exactly what the invocations
\* would each have left alone; and once all have returned Ok the server
\* holds no role and no database
C18_NoInterference ==
    NamesDistinct =>
        /\ \A e \in issued :
              /\ e.name = names[e.proc]
              /\ e.open
              /\ e.ok = e.solo
        /\ serverRoles = UNION {alone[p].roles : p \in Procs}
        /\ serverDbs = UNION {alone[p].dbs : p \in Procs}
        /\ \A p \in Procs : alone[p].roles \cup alone[p].dbs \subseteq {names[p]}
        /\ AllReturnedOk => serverRoles = {} /\ serverDbs = {}

\* all invocations returned Ok, with different names, after a moment at
\* which the server held the databases of all of them
C18_Witness ==
    /\ NamesDistinct
    /\ AllReturnedOk
    /\ peak = NumInvocations
    /\ \A p \in Procs : \E e \in issued : e.proc = p /\ e.stmt = "DROP ROLE" /\ e.ok
====
